---- MODULE Spec2Model ----
(***************************************************************************)
(* Model of the agentic RAG query pipeline: AgentGraph.invoke and the     *)
(* LangGraph workflow it runs (src/src/agents/graph.py), the node          *)
(* handlers (src/src/agents/nodes.py), the tools (src/src/agents/tools.py) *)
(* and the guardrails (src/src/guardrails/*.py).                           *)
(*                                                                         *)
(* Floats are modelled as integers in hundredths (0.7 is 70, 1.0 is 100).  *)
(* A text (query, response) is a sequence of segments; the empty string is *)
(* the empty sequence and string concatenation is \o.                      *)
(***************************************************************************)
EXTENDS Integers, Sequences, FiniteSets, TLC

VARIABLES
    collection_count,   \* number of chunks held by the Chroma collection
    pc,                 \* "idle", the graph node to run next, "END", "raised", "returned"
    state,              \* the AgentState threaded through the graph
    initial_state,      \* the dict invoke() built and keeps for its except branch
    exc,                \* text of the exception that left the graph, or None
    result,             \* what invoke() returned to its caller
    executed,           \* history: the nodes run by the current request, in order
    calls,              \* history: the backend calls made by the nodes of the current request
    parked              \* a second request in flight on the same AgentGraph, set aside

vars ==
    <<collection_count, pc, state, initial_state, exc, result, executed, calls,
      parked>>

----------------------------------------------------------------------------
(* Bounds of the model *)

MaxIndex == 2           \* largest number of chunks in the collection
MaxResults == 2         \* largest number of raw hits the vector index returns
MaxSearchResults == 1   \* largest number of organic web results
MaxTokens == 2          \* longest query, in tokens, handed to the Input Guard alone

(* Program constants *)

MAX_QUERY_LENGTH == 1000
similarity_threshold == 70
relevance_threshold == 60
hallucination_threshold == 70
RouteConfidence == 70
DefaultConfidence == 50
DefaultScore == 50
PreviewLen == 200
RetryAttempts == 3      \* stop_after_attempt(3) of the retry wrappers

None == "None"
NoState == [none |-> TRUE]

\* an entry of the calls history: which backend call, whether it raised and
\* with what, whether the reader of its reply could parse it, and for a call
\* that asks for a score the text it returned
Call(name, raised, error, parsed, reply) ==
    [call |-> name, raised |-> raised, error |-> error, parsed |-> parsed,
     reply |-> reply]

\* the entry for a completion call with the given outcome
LLMCall(name, outcome, parsed) ==
    IF outcome.raised THEN Call(name, TRUE, outcome.error, FALSE, None)
    ELSE Call(name, FALSE, None, parsed, None)

\* the entry for a vector-store or web-search call
StoreCall(name, ok) ==
    Call(name, ~ok, IF ok THEN None ELSE "Exception", ok, None)

InSeq(x, s) == \E i \in 1..Len(s) : s[i] = x

Min(a, b) == IF a <= b THEN a ELSE b
Max(a, b) == IF a >= b THEN a ELSE b

----------------------------------------------------------------------------
(* Queries: a query is a sequence of tokens, its text their concatenation *)

Tokens == {"hello", " ", "select", ";", "disregard", "123-45-6789", "x1001"}

\* len() of a token's text; "x1001" stands for 1001 letters
CharLen(t) ==
    CASE t = "hello" -> 5
      [] t = " " -> 1
      [] t = "select" -> 6
      [] t = ";" -> 1
      [] t = "disregard" -> 9
      [] t = "123-45-6789" -> 11
      [] t = "x1001" -> 1001

\* the token's first and last characters are \w characters
IsWord(t) == t \notin {" ", ";"}

RECURSIVE QueryLen(_)
QueryLen(q) == IF q = <<>> THEN 0 ELSE CharLen(Head(q)) + QueryLen(Tail(q))

\* query.strip() is empty
IsBlank(q) == \A i \in 1..Len(q) : q[i] = " "

\* the token at i stands between two \b word boundaries
AtWordBoundaries(q, i) ==
    /\ (i = 1 \/ ~IsWord(q[i - 1]))
    /\ (i = Len(q) \/ ~IsWord(q[i + 1]))

MatchesSQL(q) ==
    \/ \E i \in 1..Len(q) : q[i] = "select" /\ AtWordBoundaries(q, i)
    \/ \E i \in 1..Len(q) : q[i] = ";"

MatchesPII(q) ==
    \E i \in 1..Len(q) : q[i] = "123-45-6789" /\ AtWordBoundaries(q, i)

MatchesPromptInjection(q) ==
    \E i \in 1..Len(q) : q[i] = "disregard"

REASON_LONG == "Query too long (max 1000 characters)"
REASON_EMPTY == "Query cannot be empty"
REASON_SQL == "Query contains potentially malicious SQL patterns"
REASON_PROMPT == "Query contains suspicious prompt manipulation patterns"

\* mutant: a query with PII is rejected
validate_queryBlocksPII(q) ==
    IF QueryLen(q) > MAX_QUERY_LENGTH
        THEN [valid |-> FALSE, reason |-> REASON_LONG]
    ELSE IF IsBlank(q)
        THEN [valid |-> FALSE, reason |-> REASON_EMPTY]
    ELSE IF MatchesSQL(q)
        THEN [valid |-> FALSE, reason |-> REASON_SQL]
    ELSE IF MatchesPII(q)
        THEN [valid |-> FALSE, reason |-> REASON_PROMPT]
    ELSE IF MatchesPromptInjection(q)
        THEN [valid |-> FALSE, reason |-> REASON_PROMPT]
    ELSE [valid |-> TRUE, reason |-> ""]

\* mutant: the validator remembers the query it saw last and rejects a repeat
validate_queryRemembers(q) ==
    IF result # NoState /\ result.query = q
        THEN [valid |-> FALSE, reason |-> REASON_PROMPT]
    ELSE IF QueryLen(q) > MAX_QUERY_LENGTH
        THEN [valid |-> FALSE, reason |-> REASON_LONG]
    ELSE IF IsBlank(q)
        THEN [valid |-> FALSE, reason |-> REASON_EMPTY]
    ELSE IF MatchesSQL(q)
        THEN [valid |-> FALSE, reason |-> REASON_SQL]
    ELSE IF MatchesPromptInjection(q)
        THEN [valid |-> FALSE, reason |-> REASON_PROMPT]
    ELSE [valid |-> TRUE, reason |-> ""]

validate_query(q) ==
    IF QueryLen(q) > MAX_QUERY_LENGTH
        THEN [valid |-> FALSE, reason |-> REASON_LONG]
    ELSE IF IsBlank(q)
        THEN [valid |-> FALSE, reason |-> REASON_EMPTY]
    ELSE IF MatchesSQL(q)
        THEN [valid |-> FALSE, reason |-> REASON_SQL]
    ELSE IF MatchesPromptInjection(q)
        THEN [valid |-> FALSE, reason |-> REASON_PROMPT]
    ELSE [valid |-> TRUE, reason |-> ""]

\* the queries submitted to the pipeline
Queries ==
    { <<"hello">>,
      <<"select", " ", "hello">>,
      <<" ">>,
      <<"disregard">>,
      <<"x1001">> }

----------------------------------------------------------------------------
(* The request state built by invoke() *)

NewState(query, doc_count) ==
    [ query |-> query,
      is_valid |-> TRUE,
      validation_reason |-> "",
      query_intent |-> None,
      confidence |-> 0,
      selected_tool |-> None,
      retrieved_documents |-> <<>>,
      relevance_score |-> 0,
      is_relevant |-> FALSE,
      search_results |-> <<>>,
      response |-> <<>>,
      source_type |-> "",
      sources |-> <<>>,
      is_grounded |-> TRUE,
      grounding_confidence |-> 100,
      attempted_tools |-> <<>>,
      needs_fallback |-> FALSE,
      processing_time |-> 0,
      error |-> None,
      doc_count |-> doc_count ]

Init ==
    /\ collection_count \in 0..MaxIndex
    /\ pc = "idle"
    /\ state = NoState
    /\ initial_state = NoState
    /\ exc = None
    /\ result = NoState
    /\ executed = <<>>
    /\ calls = <<>>
    /\ parked = NoState

\* ChromaManager.get_collection_count: the count, or 0 when the store fails
get_collection_count(ok) == IF ok THEN collection_count ELSE 0

\* mutant: the new state takes over the tool list of the other request in flight
InvokeSharesList(query, count_ok) ==
    /\ pc \in {"idle", "returned"}
    /\ state' = [NewState(query, get_collection_count(count_ok)) EXCEPT
                    !.attempted_tools = IF parked.pc \in {"idle", "returned"}
                                        THEN @ ELSE parked.state.attempted_tools]
    /\ initial_state' = state'
    /\ pc' = "input_validation"
    /\ exc' = None
    /\ result' = NoState
    /\ executed' = <<>>
    /\ calls' = <<>>
    /\ UNCHANGED <<collection_count, parked>>

\* AgentGraph.invoke up to the call of the compiled graph
Invoke(query, count_ok) ==
    /\ pc \in {"idle", "returned"}
    /\ state' = NewState(query, get_collection_count(count_ok))
    /\ initial_state' = state'
    /\ pc' = "input_validation"
    /\ exc' = None
    /\ result' = NoState
    /\ executed' = <<>>
    /\ calls' = <<>>
    /\ UNCHANGED <<collection_count, parked>>

\* mutant: the edge ignores the verdict
ValidationEdgeIgnoresVerdict(s) == "query_analysis"

\* the conditional edge leaving input_validation
ValidationEdge(s) == IF ~s.is_valid THEN "END" ELSE "query_analysis"

\* mutant: the node also writes the rejection into the answer
input_validation_nodeWritesAnswer ==
    /\ pc = "input_validation"
    /\ LET v == validate_query(state.query)
           s == [state EXCEPT !.is_valid = v.valid, !.validation_reason = v.reason,
                              !.response = IF v.valid THEN state.response
                                           ELSE <<v.reason>>]
       IN /\ state' = s
          /\ pc' = ValidationEdge(s)
    /\ executed' = Append(executed, "input_validation")
    /\ UNCHANGED <<collection_count, initial_state, exc, result, calls, parked>>

input_validation_node ==
    /\ pc = "input_validation"
    /\ LET v == validate_query(state.query)
           s == [state EXCEPT !.is_valid = v.valid, !.validation_reason = v.reason]
       IN /\ state' = s
          /\ pc' = ValidationEdge(s)
    /\ executed' = Append(executed, "input_validation")
    /\ UNCHANGED <<collection_count, initial_state, exc, result, calls, parked>>

----------------------------------------------------------------------------
(* Language-model replies *)

\* the text after "Category:" and after "Confidence:" in the classifier's reply;
\* MISSING stands for a reply without that line
MISSING == "<missing>"
CategoryTexts == {"Document", "knowledge", "search", "unclear"}
ConfidenceTexts == {"0.69", "0.7", "1.5", "high"}

ClassifierReplies ==
    [raised : {FALSE},
     category : CategoryTexts \cup {MISSING},
     confidence : ConfidenceTexts \cup {MISSING}]

\* str.lower()
Lower(t) == IF t = "Document" THEN "document" ELSE t

\* the texts float() accepts
NumberTexts == {"-0.1", "0.5", "0.59", "0.6", "0.69", "0.7", "1.5"}

\* float() succeeds on the text
IsNumeric(t) == t \in NumberTexts

\* float(t), in hundredths
ParseFloat(t) ==
    CASE t = "-0.1" -> 0 - 10
      [] t = "0.5" -> 50
      [] t = "0.59" -> 59
      [] t = "0.6" -> 60
      [] t = "0.69" -> 69
      [] t = "0.7" -> 70
      [] t = "1.5" -> 150

\* max(0.0, min(1.0, x))
Clamp(x) == Max(0, Min(100, x))

\* the entry for a completion call that asks for a score: float() of the
\* reply is the parse
ScoreCall(name, outcome) ==
    IF outcome.raised THEN Call(name, TRUE, outcome.error, FALSE, None)
    ELSE Call(name, FALSE, None, IsNumeric(outcome.content), outcome.content)

----------------------------------------------------------------------------
(* Intent classifier *)

\* the parse in the try block succeeds
ClassifierParses(reply) ==
    /\ reply.category # MISSING
    /\ reply.confidence # MISSING
    /\ IsNumeric(reply.confidence)

\* mutant: the category is stored as soon as it is read, before the
\* confidence is parsed
query_analysis_nodePartial(outcome) ==
    /\ pc = "query_analysis"
    /\ state' =
         IF ~outcome.raised /\ ClassifierParses(outcome)
         THEN [state EXCEPT !.query_intent = Lower(outcome.category),
                            !.confidence = ParseFloat(outcome.confidence)]
         ELSE IF ~outcome.raised /\ outcome.category # MISSING
         THEN [state EXCEPT !.query_intent = Lower(outcome.category),
                            !.confidence = DefaultConfidence]
         ELSE [state EXCEPT !.query_intent = "document",
                            !.confidence = DefaultConfidence]
    /\ pc' = "router"
    /\ executed' = Append(executed, "query_analysis")
    /\ calls' = Append(calls, LLMCall("llm.classify", outcome,
                                    ~outcome.raised /\ ClassifierParses(outcome)))
    /\ UNCHANGED <<collection_count, initial_state, exc, result, parked>>

query_analysis_node(outcome) ==
    /\ pc = "query_analysis"
    /\ state' =
         IF ~outcome.raised /\ ClassifierParses(outcome)
         THEN [state EXCEPT !.query_intent = Lower(outcome.category),
                            !.confidence = ParseFloat(outcome.confidence)]
         ELSE [state EXCEPT !.query_intent = "document",
                            !.confidence = DefaultConfidence]
    /\ pc' = "router"
    /\ executed' = Append(executed, "query_analysis")
    /\ calls' = Append(calls, LLMCall("llm.classify", outcome,
                                    ~outcome.raised /\ ClassifierParses(outcome)))
    /\ UNCHANGED <<collection_count, initial_state, exc, result, parked>>

----------------------------------------------------------------------------
(* Router *)

\* mutant: the documents-first rule is missing
SelectToolIntentOnly(s) ==
    IF s.confidence >= RouteConfidence THEN
        CASE s.query_intent = "document" -> "rag"
          [] s.query_intent = "knowledge" -> "llm"
          [] s.query_intent = "search" -> "search"
          [] OTHER -> s.selected_tool
    ELSE "rag"

\* mutant: the confidence test excludes the boundary
SelectToolStrictThreshold(s) ==
    IF s.doc_count > 0 /\ s.query_intent # "search" THEN "rag"
    ELSE IF s.confidence > RouteConfidence THEN
        CASE s.query_intent = "document" -> "rag"
          [] s.query_intent = "knowledge" -> "llm"
          [] s.query_intent = "search" -> "search"
          [] OTHER -> s.selected_tool
    ELSE "rag"

\* the if / elif / else chain of router_node: the value left in selected_tool
SelectTool(s) ==
    IF s.doc_count > 0 /\ s.query_intent # "search" THEN "rag"
    ELSE IF s.confidence >= RouteConfidence THEN
        CASE s.query_intent = "document" -> "rag"
          [] s.query_intent = "knowledge" -> "llm"
          [] s.query_intent = "search" -> "search"
          [] OTHER -> s.selected_tool
    ELSE "rag"

\* the conditional edge leaving router: its path map has the three tools only
RouterEdge(s) ==
    IF s.selected_tool \in {"rag", "llm", "search"} THEN s.selected_tool ELSE "raised"

\* mutant: the chosen tool is not recorded in attempted_tools
router_nodeWithoutAppend ==
    /\ pc = "router"
    /\ LET s == [state EXCEPT !.selected_tool = SelectTool(state)]
       IN /\ state' = s
          /\ pc' = RouterEdge(s)
          /\ exc' = IF RouterEdge(s) = "raised" THEN "KeyError" ELSE exc
    /\ executed' = Append(executed, "router")
    /\ UNCHANGED <<collection_count, initial_state, result, calls, parked>>

router_node ==
    /\ pc = "router"
    /\ LET tool == SelectTool(state)
           s == [state EXCEPT !.selected_tool = tool,
                              !.attempted_tools = Append(@, tool)]
       IN /\ state' = s
          /\ pc' = RouterEdge(s)
          /\ exc' = IF RouterEdge(s) = "raised" THEN "KeyError" ELSE exc
    /\ executed' = Append(executed, "router")
    /\ UNCHANGED <<collection_count, initial_state, result, calls, parked>>

----------------------------------------------------------------------------
(* Backend replies used by the tools *)

\* a completion call that raises: ChatGroq raises API errors, which are not
\* ValueError
LLMFailures == {[raised |-> TRUE, error |-> "APIConnectionError"]}

\* what can be raised inside the try block of a scorer: an API error from the
\* call, or a ValueError or AttributeError from the handling of its reply
ScorerFailures == LLMFailures \cup {[raised |-> TRUE, error |-> "ValueError"]}

\* a completion that returns answer text
AnswerReplies == {[raised |-> FALSE, content |-> <<"model text">>]}

\* a completion that returns the text of a score to the relevance prompt and
\* to the grounding prompt: numbers around each threshold and outside [0,1],
\* and a reply that is no number
RelevanceReplies == [raised : {FALSE}, content : {"-0.1", "0.59", "0.6", "1.5", "somewhat"}]
GroundingReplies == [raised : {FALSE}, content : {"-0.1", "0.69", "0.7", "1.5", "mostly"}]

\* the values the index reports for a hit, and the lengths of a chunk's text
HitScores == {69, 70}
ContentLens == {0, 5}

Hits == [doc : [page_content : ContentLens], score : HitScores]

SeqsUpTo(S, n) == UNION {[1..k -> S] : k \in 0..n}

\* what the underlying index can return for a query: at most top_k hits
\* (bounded by MaxResults) and no more than the collection holds
RawResults == SeqsUpTo(Hits, Min(MaxResults, collection_count))

WebResults == SeqsUpTo({[title |-> "t", link |-> "u", snippet |-> "s"]}, MaxSearchResults)

----------------------------------------------------------------------------
(* Retrieval tool *)

\* mutant: the manager returns every hit
AboveThresholdAcceptsAll(hit) == TRUE

AboveThreshold(hit) == hit.score >= similarity_threshold

\* ChromaManager.similarity_search_with_score: the hits at or above the
\* similarity threshold, or [] when the index call raises
similarity_search_with_score(ok, raw) ==
    IF ok THEN SelectSeq(raw, AboveThreshold) ELSE <<>>

\* AgentTools.rag_tool on the hits the manager returned
rag_tool(results) ==
    [ documents |-> [i \in 1..Len(results) |-> results[i].doc],
      scores |-> [i \in 1..Len(results) |-> results[i].score],
      sources |-> [i \in 1..Len(results) |->
                      [type |-> "document",
                       score |-> results[i].score,
                       content |-> Min(results[i].doc.page_content, PreviewLen)]],
      success |-> Len(results) > 0 ]

\* the entry for the index search; its reply field tells whether the
\* collection held no chunk at all when it was searched
EMPTY_INDEX == "empty index"
IndexCall(ok) ==
    [StoreCall("chroma.search", ok) EXCEPT
        !.reply = IF collection_count = 0 THEN EMPTY_INDEX ELSE None]

rag_node(ok, raw) ==
    /\ pc = "rag"
    /\ LET r == rag_tool(similarity_search_with_score(ok, raw))
       IN state' = [state EXCEPT
                      !.retrieved_documents = r.documents,
                      !.sources = r.sources,
                      !.needs_fallback = IF ~r.success THEN TRUE ELSE @]
    /\ pc' = "relevance_check"
    /\ executed' = Append(executed, "rag")
    /\ calls' = Append(calls, IndexCall(ok))
    /\ UNCHANGED <<collection_count, initial_state, exc, result, parked>>

----------------------------------------------------------------------------
(* Knowledge tool *)

\* AgentTools.llm_tool
llm_tool(outcome) ==
    IF ~outcome.raised
    THEN [ response |-> outcome.content,
           sources |-> <<[type |-> "llm_knowledge"]>>,
           success |-> TRUE ]
    ELSE [ response |-> <<>>, sources |-> <<>>, success |-> FALSE ]

\* mutant: a failed Knowledge tool sends the request back to retrieval
llm_nodeRetriesRetrieval(outcome) ==
    /\ pc = "llm"
    /\ LET r == llm_tool(outcome)
       IN /\ state' = IF r.success
                      THEN [state EXCEPT !.response = r.response,
                                         !.sources = r.sources,
                                         !.source_type = "llm"]
                      ELSE [state EXCEPT !.needs_fallback = TRUE]
          /\ pc' = IF r.success THEN "hallucination_check" ELSE "rag"
    /\ executed' = Append(executed, "llm")
    /\ calls' = Append(calls, LLMCall("llm.knowledge", outcome, TRUE))
    /\ UNCHANGED <<collection_count, initial_state, exc, result, parked>>

llm_node(outcome) ==
    /\ pc = "llm"
    /\ LET r == llm_tool(outcome)
       IN state' = IF r.success
                   THEN [state EXCEPT !.response = r.response,
                                      !.sources = r.sources,
                                      !.source_type = "llm"]
                   ELSE [state EXCEPT !.needs_fallback = TRUE]
    /\ pc' = "hallucination_check"
    /\ executed' = Append(executed, "llm")
    /\ calls' = Append(calls, LLMCall("llm.knowledge", outcome, TRUE))
    /\ UNCHANGED <<collection_count, initial_state, exc, result, parked>>

----------------------------------------------------------------------------
(* Web-search tool *)

\* SerperClient.search_with_metadata: the organic results, or [] on any error
search_with_metadata(ok, web) == IF ok THEN web ELSE <<>>

\* AgentTools.search_tool
search_tool(results) ==
    [ results |-> results,
      sources |-> [i \in 1..Len(results) |->
                      [type |-> "internet_search",
                       title |-> results[i].title,
                       url |-> results[i].link,
                       snippet |-> results[i].snippet]],
      success |-> Len(results) > 0 ]

\* mutant: the answer is tagged search although the completion failed
search_nodeTagsOnFailure(ok, web, outcome) ==
    /\ pc = "search"
    /\ LET r == search_tool(search_with_metadata(ok, web))
           found == [state EXCEPT !.search_results = r.results,
                                  !.sources = r.sources]
       IN IF r.success
          THEN /\ state' = IF ~outcome.raised
                           THEN [found EXCEPT !.response = outcome.content,
                                              !.source_type = "search"]
                           ELSE [found EXCEPT !.needs_fallback = TRUE,
                                              !.source_type = "search"]
               /\ calls' = calls \o <<StoreCall("serper.search", ok),
                                      LLMCall("llm.search", outcome, TRUE)>>
          ELSE /\ state' = [state EXCEPT !.needs_fallback = TRUE]
               /\ calls' = Append(calls, StoreCall("serper.search", ok))
    /\ pc' = "hallucination_check"
    /\ executed' = Append(executed, "search")
    /\ UNCHANGED <<collection_count, initial_state, exc, result, parked>>

search_node(ok, web, outcome) ==
    /\ pc = "search"
    /\ LET r == search_tool(search_with_metadata(ok, web))
           found == [state EXCEPT !.search_results = r.results,
                                  !.sources = r.sources]
       IN IF r.success
          THEN /\ state' = IF ~outcome.raised
                           THEN [found EXCEPT !.response = outcome.content,
                                              !.source_type = "search"]
                           ELSE [found EXCEPT !.needs_fallback = TRUE]
               /\ calls' = calls \o <<StoreCall("serper.search", ok),
                                      LLMCall("llm.search", outcome, TRUE)>>
          ELSE /\ state' = [state EXCEPT !.needs_fallback = TRUE]
               /\ calls' = Append(calls, StoreCall("serper.search", ok))
    /\ pc' = "hallucination_check"
    /\ executed' = Append(executed, "search")
    /\ UNCHANGED <<collection_count, initial_state, exc, result, parked>>

----------------------------------------------------------------------------
(* Relevance gate *)

\* the except clause of the scorers catches ValueError and AttributeError only
CaughtByScorer(outcome) == outcome.error \in {"ValueError", "AttributeError"}

\* mutant: a score equal to the threshold does not count as relevant
score_relevanceStrict(outcome) ==
    IF ~outcome.raised /\ IsNumeric(outcome.content)
    THEN LET score == Clamp(ParseFloat(outcome.content))
         IN [score |-> score, is_relevant |-> score > relevance_threshold]
    ELSE [score |-> DefaultScore, is_relevant |-> TRUE]

\* mutant: a reply that does not parse counts as not relevant
score_relevanceFailsClosed(outcome) ==
    IF ~outcome.raised /\ IsNumeric(outcome.content)
    THEN LET score == Clamp(ParseFloat(outcome.content))
         IN [score |-> score, is_relevant |-> score >= relevance_threshold]
    ELSE [score |-> DefaultScore, is_relevant |-> FALSE]

\* RelevanceScorer.score_relevance on non-empty documents, when it returns
score_relevance(outcome) ==
    IF ~outcome.raised /\ IsNumeric(outcome.content)
    THEN LET score == Clamp(ParseFloat(outcome.content))
         IN [score |-> score, is_relevant |-> score >= relevance_threshold]
    ELSE [score |-> DefaultScore, is_relevant |-> TRUE]

\* mutant: the two branches of the edge are swapped
RelevanceEdgeSwapped(s) == IF s.is_relevant THEN "llm" ELSE "response_synthesis"

\* mutant: the fallback edge is missing
RelevanceEdgeAlwaysSynthesis(s) == "response_synthesis"

\* the conditional edge leaving relevance_check
RelevanceEdge(s) == IF s.is_relevant THEN "response_synthesis" ELSE "llm"

\* mutant: empty evidence is sent to the model like any other
relevance_check_nodeScoresEmpty(outcome) ==
    /\ pc = "relevance_check"
    /\ executed' = Append(executed, "relevance_check")
    /\ IF FALSE
       THEN LET s == [state EXCEPT !.is_relevant = FALSE,
                                   !.relevance_score = 0,
                                   !.needs_fallback = TRUE]
            IN /\ state' = s
               /\ pc' = RelevanceEdge(s)
               /\ UNCHANGED <<exc, calls>>
       ELSE /\ calls' = Append(calls, ScoreCall("llm.relevance", outcome))
            /\ IF outcome.raised /\ ~CaughtByScorer(outcome)
               THEN /\ pc' = "raised"
                    /\ exc' = outcome.error
                    /\ UNCHANGED state
               ELSE LET r == score_relevance(outcome)
                        s == [state EXCEPT
                                !.is_relevant = r.is_relevant,
                                !.relevance_score = r.score,
                                !.needs_fallback = IF ~r.is_relevant THEN TRUE ELSE @]
                    IN /\ state' = s
                       /\ pc' = RelevanceEdge(s)
                       /\ UNCHANGED exc
    /\ UNCHANGED <<collection_count, initial_state, result, parked>>

relevance_check_node(outcome) ==
    /\ pc = "relevance_check"
    /\ executed' = Append(executed, "relevance_check")
    /\ IF state.retrieved_documents = <<>>
       THEN LET s == [state EXCEPT !.is_relevant = FALSE,
                                   !.relevance_score = 0,
                                   !.needs_fallback = TRUE]
            IN /\ state' = s
               /\ pc' = RelevanceEdge(s)
               /\ UNCHANGED <<exc, calls>>
       ELSE /\ calls' = Append(calls, ScoreCall("llm.relevance", outcome))
            /\ IF outcome.raised /\ ~CaughtByScorer(outcome)
               THEN /\ pc' = "raised"
                    /\ exc' = outcome.error
                    /\ UNCHANGED state
               ELSE LET r == score_relevance(outcome)
                        s == [state EXCEPT
                                !.is_relevant = r.is_relevant,
                                !.relevance_score = r.score,
                                !.needs_fallback = IF ~r.is_relevant THEN TRUE ELSE @]
                    IN /\ state' = s
                       /\ pc' = RelevanceEdge(s)
                       /\ UNCHANGED exc
    /\ UNCHANGED <<collection_count, initial_state, result, parked>>

----------------------------------------------------------------------------
(* Response synthesizer *)

COULD_NOT_FIND == "I couldn't find relevant information in the uploaded documents."
SYNTHESIS_ERROR == "Error generating response."

\* mutant: the model is asked even when there is no evidence
response_synthesis_nodeAsksModel(outcome) ==
    /\ pc = "response_synthesis"
    /\ IF FALSE
       THEN /\ state' = [state EXCEPT !.response = <<COULD_NOT_FIND>>,
                                      !.source_type = "none"]
            /\ UNCHANGED calls
       ELSE /\ state' = IF ~outcome.raised
                        THEN [state EXCEPT !.response = outcome.content,
                                           !.source_type = "rag"]
                        ELSE [state EXCEPT !.response = <<SYNTHESIS_ERROR>>,
                                           !.error = outcome.error]
            /\ calls' = Append(calls, LLMCall("llm.synthesis", outcome, TRUE))
    /\ pc' = "hallucination_check"
    /\ executed' = Append(executed, "response_synthesis")
    /\ UNCHANGED <<collection_count, initial_state, exc, result, parked>>

response_synthesis_node(outcome) ==
    /\ pc = "response_synthesis"
    /\ IF state.retrieved_documents = <<>>
       THEN /\ state' = [state EXCEPT !.response = <<COULD_NOT_FIND>>,
                                      !.source_type = "none"]
            /\ UNCHANGED calls
       ELSE /\ state' = IF ~outcome.raised
                        THEN [state EXCEPT !.response = outcome.content,
                                           !.source_type = "rag"]
                        ELSE [state EXCEPT !.response = <<SYNTHESIS_ERROR>>,
                                           !.error = outcome.error]
            /\ calls' = Append(calls, LLMCall("llm.synthesis", outcome, TRUE))
    /\ pc' = "hallucination_check"
    /\ executed' = Append(executed, "response_synthesis")
    /\ UNCHANGED <<collection_count, initial_state, exc, result, parked>>

----------------------------------------------------------------------------
(* Groundedness gate *)

CAVEAT == "\n\nNote: This response may contain unverified information."

\* how many documents the prompts quote
ContextDocs == 3

\* len("\n\n".join(texts)), texts given by their lengths
RECURSIVE JoinLen(_)
JoinLen(docs) ==
    IF docs = <<>> THEN 0
    ELSE IF Len(docs) = 1 THEN docs[1].page_content
    ELSE docs[1].page_content + 2 + JoinLen(Tail(docs))

\* mutant: an empty evidence text counts as context
NoContextIgnoresEvidence(s) == s.source_type # "rag"

\* hallucination_check_node's context: None unless the answer came from
\* retrieval; the result is "not context" (None or the empty string)
NoContext(s) ==
    \/ s.source_type # "rag"
    \/ JoinLen(SubSeq(s.retrieved_documents, 1,
                      Min(ContextDocs, Len(s.retrieved_documents)))) = 0

\* check_grounding returns without a model call
GroundingSkipsModel(s) == s.source_type \in {"llm", "search"} \/ NoContext(s)

\* mutant: a rating equal to the threshold does not count as grounded
check_groundingStrict(s, outcome) ==
    IF s.source_type \in {"llm", "search"}
        THEN [is_grounded |-> TRUE, confidence |-> 100]
    ELSE IF NoContext(s)
        THEN [is_grounded |-> FALSE, confidence |-> 0]
    ELSE IF ~outcome.raised /\ IsNumeric(outcome.content)
        THEN LET confidence == Clamp(ParseFloat(outcome.content))
             IN [is_grounded |-> confidence > hallucination_threshold,
                 confidence |-> confidence]
    ELSE [is_grounded |-> TRUE, confidence |-> DefaultScore]

\* mutant: knowledge and search answers are not exempt from the check
check_groundingWithoutShortCircuit(s, outcome) ==
    IF NoContext(s)
        THEN [is_grounded |-> FALSE, confidence |-> 0]
    ELSE IF ~outcome.raised /\ IsNumeric(outcome.content)
        THEN LET confidence == Clamp(ParseFloat(outcome.content))
             IN [is_grounded |-> confidence >= hallucination_threshold,
                 confidence |-> confidence]
    ELSE [is_grounded |-> TRUE, confidence |-> DefaultScore]

\* HallucinationDetector.check_grounding, when it returns
check_grounding(s, outcome) ==
    IF s.source_type \in {"llm", "search"}
        THEN [is_grounded |-> TRUE, confidence |-> 100]
    ELSE IF NoContext(s)
        THEN [is_grounded |-> FALSE, confidence |-> 0]
    ELSE IF ~outcome.raised /\ IsNumeric(outcome.content)
        THEN LET confidence == Clamp(ParseFloat(outcome.content))
             IN [is_grounded |-> confidence >= hallucination_threshold,
                 confidence |-> confidence]
    ELSE [is_grounded |-> TRUE, confidence |-> DefaultScore]

\* mutant: the caveat is appended whatever the verdict
hallucination_check_nodeAlwaysCaveat(outcome) ==
    /\ pc = "hallucination_check"
    /\ executed' = Append(executed, "hallucination_check")
    /\ calls' = IF GroundingSkipsModel(state) THEN calls
                ELSE Append(calls, ScoreCall("llm.grounding", outcome))
    /\ IF ~GroundingSkipsModel(state) /\ outcome.raised /\ ~CaughtByScorer(outcome)
       THEN /\ pc' = "raised"
            /\ exc' = outcome.error
            /\ UNCHANGED state
       ELSE LET r == check_grounding(state, outcome)
            IN /\ state' = [state EXCEPT
                              !.is_grounded = r.is_grounded,
                              !.grounding_confidence = r.confidence,
                              !.response = Append(@, CAVEAT)]
               /\ pc' = "END"
               /\ UNCHANGED exc
    /\ UNCHANGED <<collection_count, initial_state, result, parked>>

hallucination_check_node(outcome) ==
    /\ pc = "hallucination_check"
    /\ executed' = Append(executed, "hallucination_check")
    /\ calls' = IF GroundingSkipsModel(state) THEN calls
                ELSE Append(calls, ScoreCall("llm.grounding", outcome))
    /\ IF ~GroundingSkipsModel(state) /\ outcome.raised /\ ~CaughtByScorer(outcome)
       THEN /\ pc' = "raised"
            /\ exc' = outcome.error
            /\ UNCHANGED state
       ELSE LET r == check_grounding(state, outcome)
            IN /\ state' = [state EXCEPT
                              !.is_grounded = r.is_grounded,
                              !.grounding_confidence = r.confidence,
                              !.response = IF ~r.is_grounded
                                           THEN Append(@, CAVEAT) ELSE @]
               /\ pc' = "END"
               /\ UNCHANGED exc
    /\ UNCHANGED <<collection_count, initial_state, result, parked>>

----------------------------------------------------------------------------
(* AgentGraph.invoke after the graph has run *)

GENERIC_ERROR == "An error occurred while processing your query."

\* time.time() - start_time, in hundredths of a second: written, never read
Durations == {150}

\* the try branch: the graph reached END
Return(elapsed) ==
    /\ pc = "END"
    /\ result' = [state EXCEPT !.processing_time = elapsed]
    /\ pc' = "returned"
    /\ UNCHANGED <<collection_count, state, initial_state, exc, executed, calls, parked>>

\* mutant: the except branch leaves the response as it was
ReturnErrorKeepsResponse(elapsed, shared) ==
    /\ pc = "raised"
    /\ result' = [initial_state EXCEPT
                    !.error = exc,
                    !.processing_time = elapsed,
                    !.attempted_tools = IF shared THEN state.attempted_tools ELSE @]
    /\ pc' = "returned"
    /\ UNCHANGED <<collection_count, state, initial_state, exc, executed, calls, parked>>

\* the except branch: an exception left the graph. The graph library hands
\* the input's list objects to the nodes or copies of them; router_node
\* appends to attempted_tools in place, so initial_state sees the append
\* only if the list is shared.
ReturnError(elapsed, shared) ==
    /\ pc = "raised"
    /\ result' = [initial_state EXCEPT
                    !.error = exc,
                    !.response = <<GENERIC_ERROR>>,
                    !.processing_time = elapsed,
                    !.attempted_tools = IF shared THEN state.attempted_tools ELSE @]
    /\ pc' = "returned"
    /\ UNCHANGED <<collection_count, state, initial_state, exc, executed, calls, parked>>

----------------------------------------------------------------------------
(* The vector store changes under other sessions *)

\* ChromaManager.add_documents with a non-empty list of chunks
add_documents(n) ==
    /\ collection_count + n <= MaxIndex
    /\ collection_count' = collection_count + n
    /\ UNCHANGED <<pc, state, initial_state, exc, result, executed, calls, parked>>

\* ChromaManager.delete_collection
delete_collection ==
    /\ collection_count > 0
    /\ collection_count' = 0
    /\ UNCHANGED <<pc, state, initial_state, exc, result, executed, calls, parked>>

Next ==
    \/ \E q \in Queries, ok \in BOOLEAN : Invoke(q, ok)
    \/ input_validation_node
    \/ \E o \in ClassifierReplies \cup LLMFailures : query_analysis_node(o)
    \/ router_node
    \/ \E ok \in BOOLEAN, raw \in RawResults : rag_node(ok, raw)
    \/ \E o \in AnswerReplies \cup LLMFailures : llm_node(o)
    \/ \E ok \in BOOLEAN, web \in WebResults, o \in AnswerReplies \cup LLMFailures :
          search_node(ok, web, o)
    \/ \E o \in RelevanceReplies \cup ScorerFailures : relevance_check_node(o)
    \/ \E o \in AnswerReplies \cup LLMFailures : response_synthesis_node(o)
    \/ \E o \in GroundingReplies \cup ScorerFailures : hallucination_check_node(o)
    \/ \E dt \in Durations : Return(dt)
    \/ \E dt \in Durations, shared \in BOOLEAN : ReturnError(dt, shared)
    \/ \E n \in 1..MaxIndex : add_documents(n)
    \/ delete_collection

Spec == Init /\ [][Next]_vars

----------------------------------------------------------------------------
(* The Input Guard on its own: InputValidator.validate_query called again   *)
(* and again on one query, between calls on other queries.  Here state      *)
(* holds the query under test, result the latest call (query and verdict)   *)
(* and calls the distinct verdicts returned for the query under test, in    *)
(* the order they were first seen.                                          *)

\* every text of at most MaxTokens tokens, the empty string included
AllQueries == SeqsUpTo(Tokens, MaxTokens)

InitGuard ==
    /\ collection_count = 0
    /\ pc = "idle"
    /\ state \in {NewState(q, 0) : q \in AllQueries}
    /\ initial_state = NoState
    /\ exc = None
    /\ result = NoState
    /\ executed = <<>>
    /\ calls = <<>>
    /\ parked = NoState

\* one call of validate_query, as input_validation_node makes it
ValidatorCall(q) == [query |-> q, verdict |-> validate_query(q)]

\* validate_query on the query under test
ValidateQuery ==
    /\ pc = "idle"
    /\ LET r == ValidatorCall(state.query)
       IN /\ result' = r
          /\ calls' = IF InSeq(r.verdict, calls) THEN calls
                      ELSE Append(calls, r.verdict)
    /\ UNCHANGED <<collection_count, pc, state, initial_state, exc, executed, parked>>

\* validate_query on another caller's query
ValidateOther(q) ==
    /\ pc = "idle"
    /\ q # state.query
    /\ result' = ValidatorCall(q)
    /\ UNCHANGED <<collection_count, pc, state, initial_state, exc, executed, calls, parked>>

NextGuard ==
    \/ ValidateQuery
    \/ \E q \in Queries : ValidateOther(q)

SpecGuard == InitGuard /\ [][NextGuard]_vars

----------------------------------------------------------------------------
(* The Response Synthesizer on its own: response_synthesis_node handed a    *)
(* request state with any evidence, the empty list included, followed by    *)
(* the stages the graph runs after it.                                      *)

\* the evidence lists a caller can hand to the node
EvidenceLists == SeqsUpTo([page_content : ContentLens], MaxResults)

InitSynthesis ==
    /\ collection_count \in 0..MaxIndex
    /\ pc = "response_synthesis"
    /\ state \in {[NewState(<<"hello">>, collection_count) EXCEPT
                      !.retrieved_documents = docs] : docs \in EvidenceLists}
    /\ initial_state = state
    /\ exc = None
    /\ result = NoState
    /\ executed = <<>>
    /\ calls = <<>>
    /\ parked = NoState

NextSynthesis ==
    \/ \E o \in AnswerReplies \cup LLMFailures : response_synthesis_node(o)
    \/ \E o \in GroundingReplies \cup ScorerFailures : hallucination_check_node(o)
    \/ \E dt \in Durations : Return(dt)
    \/ \E dt \in Durations, shared \in BOOLEAN : ReturnError(dt, shared)

SpecSynthesis == InitSynthesis /\ [][NextSynthesis]_vars

----------------------------------------------------------------------------
(* Progress of a request.  invoke() runs the compiled graph in the caller's *)
(* thread: a node starts as soon as the node before it has returned, and    *)
(* invoke() returns as soon as the graph has.  So a step of the request     *)
(* that stays possible is eventually taken (weak fairness on the request's  *)
(* own steps; nothing is assumed of when the caller sends a new request).   *)

\* a step of the request in flight with every backend call returning or raising
PipelineStep ==
    \/ input_validation_node
    \/ \E o \in ClassifierReplies \cup LLMFailures : query_analysis_node(o)
    \/ router_node
    \/ \E ok \in BOOLEAN, raw \in RawResults : rag_node(ok, raw)
    \/ \E o \in AnswerReplies \cup LLMFailures : llm_node(o)
    \/ \E ok \in BOOLEAN, web \in WebResults, o \in AnswerReplies \cup LLMFailures :
          search_node(ok, web, o)
    \/ \E o \in RelevanceReplies \cup ScorerFailures : relevance_check_node(o)
    \/ \E o \in AnswerReplies \cup LLMFailures : response_synthesis_node(o)
    \/ \E o \in GroundingReplies \cup ScorerFailures : hallucination_check_node(o)
    \/ \E dt \in Durations : Return(dt)
    \/ \E dt \in Durations, shared \in BOOLEAN : ReturnError(dt, shared)

\* requests one after the other on a collection no other session changes
NextFair ==
    \/ \E q \in Queries, ok \in BOOLEAN : Invoke(q, ok)
    \/ PipelineStep

SpecFair == Init /\ [][NextFair]_vars /\ WF_vars(PipelineStep)

\* the node about to run makes a backend call (model, index or web search)
MakesBackendCall ==
    \/ pc \in {"query_analysis", "rag", "llm", "search"}
    \/ pc \in {"relevance_check", "response_synthesis"}
          /\ state.retrieved_documents # <<>>
    \/ pc = "hallucination_check" /\ ~GroundingSkipsModel(state)

\* a backend call that never returns: the clients are built and called
\* without a timeout, and invoke() waits for the graph, so the node stays in
\* its call
Hang ==
    /\ MakesBackendCall
    /\ pc' = "blocked"
    /\ executed' = Append(executed, pc)
    /\ UNCHANGED <<collection_count, state, initial_state, exc, result, calls, parked>>

NextHang == NextFair \/ Hang

SpecHang == Init /\ [][NextHang]_vars /\ WF_vars(PipelineStep)

----------------------------------------------------------------------------
(* Two requests in flight on one AgentGraph, e.g. two threads calling       *)
(* invoke() on the same instance.  The variables pc .. calls are the locals *)
(* of the call that is running; parked holds those of the other call.  The  *)
(* scheduler switches between the two at any point.                         *)

\* the locals of the running call
Context ==
    [ pc |-> pc, state |-> state, initial_state |-> initial_state, exc |-> exc,
      result |-> result, executed |-> executed, calls |-> calls ]

\* a caller that has not called invoke() yet
IdleContext ==
    [ pc |-> "idle", state |-> NoState, initial_state |-> NoState, exc |-> None,
      result |-> NoState, executed |-> <<>>, calls |-> <<>> ]

InitTwo ==
    /\ collection_count \in 0..MaxIndex
    /\ pc = "idle"
    /\ state = NoState
    /\ initial_state = NoState
    /\ exc = None
    /\ result = NoState
    /\ executed = <<>>
    /\ calls = <<>>
    /\ parked = IdleContext

\* the scheduler suspends the running call and resumes the other
Switch ==
    /\ parked' = Context
    /\ pc' = parked.pc
    /\ state' = parked.state
    /\ initial_state' = parked.initial_state
    /\ exc' = parked.exc
    /\ result' = parked.result
    /\ executed' = parked.executed
    /\ calls' = parked.calls
    /\ UNCHANGED collection_count

\* the responses the backends give while two requests are in flight
TwoQueries == {<<"hello">>, <<"disregard">>}
TwoClassifierReplies ==
    {r \in ClassifierReplies : r.category # MISSING /\ r.confidence = "0.7"}
TwoScores == {"0.59", "0.6", "0.69", "0.7"}
TwoRelevanceReplies == {r \in RelevanceReplies : r.content \in TwoScores}
TwoGroundingReplies == {r \in GroundingReplies : r.content \in TwoScores}

NextTwo ==
    \/ Switch
    \/ \E q \in TwoQueries : Invoke(q, TRUE)
    \/ input_validation_node
    \/ \E o \in TwoClassifierReplies : query_analysis_node(o)
    \/ router_node
    \/ \E raw \in RawResults : rag_node(TRUE, raw)
    \/ \E o \in AnswerReplies \cup LLMFailures : llm_node(o)
    \/ \E web \in WebResults, o \in AnswerReplies : search_node(TRUE, web, o)
    \/ \E o \in TwoRelevanceReplies \cup LLMFailures : relevance_check_node(o)
    \/ \E o \in AnswerReplies : response_synthesis_node(o)
    \/ \E o \in TwoGroundingReplies : hallucination_check_node(o)
    \/ \E dt \in Durations : Return(dt)
    \/ \E dt \in Durations, shared \in BOOLEAN : ReturnError(dt, shared)

SpecTwo == InitTwo /\ [][NextTwo]_vars

----------------------------------------------------------------------------
(* Vocabulary of the properties *)

\* a request is in progress or has returned
Active == pc # "idle"

\* invoke() has returned to its caller
Terminal == pc = "returned"

\* the stage that ran, or is about to run, right after executed[i]
StageAfter(i) == IF i < Len(executed) THEN executed[i + 1] ELSE pc

\* the node at position i of the history raised instead of returning
RaisedAt(i) == i = Len(executed) /\ exc # None

RouterRan == Active /\ InSeq("router", executed)

DownstreamNodes ==
    {"query_analysis", "router", "rag", "llm", "search", "relevance_check",
     "response_synthesis", "hallucination_check"}

----------------------------------------------------------------------------
(* C1: once the Input Guard has rejected the query, the request is at its   *)
(* end: the only node that ever ran is input_validation, no downstream node *)
(* (classifier, router, tools, gates, synthesizer) ran or is about to run,  *)
(* no model, index-search or web call was made, and the state returned is   *)
(* the rejected one.                                                        *)
C1_RejectionShortCircuits ==
    (Active /\ ~state.is_valid) =>
        /\ executed = <<"input_validation">>
        /\ \A n \in DownstreamNodes : ~InSeq(n, executed) /\ pc # n
        /\ pc \in {"END", "returned"}
        /\ calls = <<>>
        /\ (Terminal => ~result.is_valid /\ exc = None)

C1_Witness ==
    /\ Terminal
    /\ ~result.is_valid
    /\ result.validation_reason = REASON_SQL
    /\ executed = <<"input_validation">>

(* C2: after the Router has run, if the corpus snapshot is positive and the *)
(* intent is anything but search (document, knowledge, or a label outside   *)
(* the three), the selected tool is retrieval, whatever the confidence.     *)
C2_DocumentsFirst ==
    (RouterRan /\ state.doc_count > 0 /\ state.query_intent # "search")
        => state.selected_tool = "rag"

C2_Witness ==
    /\ RouterRan
    /\ state.doc_count > 0
    /\ state.query_intent = "unclear"
    /\ state.confidence >= RouteConfidence
    /\ state.selected_tool = "rag"

\* the three ordered rules of the routing policy, as the specification words them
RoutingPolicy(intent, confidence, corpus_size) ==
    CASE corpus_size > 0 /\ intent # "search" -> "rag"
      [] ~(corpus_size > 0 /\ intent # "search") /\ confidence >= 70 ->
            [document |-> "rag", knowledge |-> "llm", search |-> "search"][intent]
      [] OTHER -> "rag"

(* C3: for an intent among document, knowledge and search, the tool the     *)
(* Router selects is the one the ordered three-rule policy gives: retrieval *)
(* when the corpus is non-empty and the intent is not search; else, with    *)
(* confidence >= 0.7 (0.7 included), the tool named by the intent; else     *)
(* retrieval.                                                               *)
C3_RouterFollowsPolicy ==
    (RouterRan /\ state.query_intent \in {"document", "knowledge", "search"})
        => state.selected_tool =
             RoutingPolicy(state.query_intent, state.confidence, state.doc_count)

\* Scenario C at the boundary: search intent, confidence exactly 0.7, corpus non-empty
C3_Witness ==
    /\ RouterRan
    /\ state.query_intent = "search"
    /\ state.confidence = 70
    /\ state.doc_count > 0
    /\ state.selected_tool = "search"

(* C4: in every state after the Router has run, selected_tool is one of     *)
(* retrieval, knowledge, search.                                            *)
C4_SelectedToolIsATool ==
    RouterRan => state.selected_tool \in {"rag", "llm", "search"}

\* a step of the request in progress (not the invoke() that starts the next one)
WithinRequest == pc \notin {"idle", "returned"}

\* s is a prefix of t
IsPrefix(s, t) == Len(s) <= Len(t) /\ SubSeq(t, 1, Len(s)) = s

C5_AppendOnly ==
    WithinRequest =>
        /\ IsPrefix(state.attempted_tools, state'.attempted_tools)
        /\ (pc = "router" /\ pc' # "router")
              => state'.attempted_tools =
                    Append(state.attempted_tools, state'.selected_tool)

C5_ContainsSelected ==
    RouterRan => InSeq(state.selected_tool, state.attempted_tools)

(* C5: in the state threaded through one request, every step leaves the     *)
(* old attempted_tools as a prefix of the new one (it only grows by         *)
(* appending), the Router's step appends exactly the value it left in       *)
(* selected_tool, and in every state after the Router has run               *)
(* attempted_tools contains selected_tool.                                  *)
C5_AttemptedToolsGrow == [][C5_AppendOnly]_vars /\ []C5_ContainsSelected

C5_Witness ==
    /\ RouterRan
    /\ state.selected_tool = "llm"
    /\ state.attempted_tools = <<"llm">>
    /\ pc = "hallucination_check"

(* C6: the Relevance Gate runs only right after the retrieval tool in a     *)
(* request routed to retrieval; when it ends with is_relevant false the     *)
(* next stage is the Knowledge tool and the Synthesizer never runs in the   *)
(* request; when it ends with is_relevant true the next stage is the        *)
(* Synthesizer and the Knowledge tool never runs.                           *)
C6_RelevanceGateBranches ==
    Active =>
        \A i \in 1..Len(executed) :
            executed[i] = "relevance_check" =>
                /\ i > 1 /\ executed[i - 1] = "rag"
                /\ state.selected_tool = "rag"
                /\ \/ RaisedAt(i)
                   \/ /\ state.is_relevant
                      /\ StageAfter(i) = "response_synthesis"
                      /\ ~InSeq("llm", executed) /\ pc # "llm"
                   \/ /\ ~state.is_relevant
                      /\ StageAfter(i) = "llm"
                      /\ ~InSeq("response_synthesis", executed)
                      /\ pc # "response_synthesis"

\* the fallback edge taken on evidence the model scored below the threshold
C6_Witness ==
    /\ Terminal
    /\ state.retrieved_documents # <<>>
    /\ ~state.is_relevant
    /\ executed = <<"input_validation", "query_analysis", "router", "rag",
                    "relevance_check", "llm", "hallucination_check">>

(* C7: whenever retrieval was the selected tool and returned no passage,    *)
(* the Relevance Gate yields is_relevant false, the Knowledge tool runs     *)
(* next, and the terminal state has answer_source knowledge.                *)
C7_EmptyRetrievalEndsInKnowledge ==
    (Terminal /\ InSeq("rag", executed) /\ state.retrieved_documents = <<>>)
        => /\ ~result.is_relevant
           /\ \E i \in 1..Len(executed) :
                 executed[i] = "relevance_check" /\ StageAfter(i) = "llm"
           /\ result.source_type = "llm"

(* C8: when the evidence is non-empty and the relevance model call raised   *)
(* or returned a text that is no number, the gate leaves score 0.5 and      *)
(* is_relevant true and the next stage is the Response Synthesizer.         *)
C8_RelevanceFailureDefaults ==
    Active =>
        \A i \in 1..Len(calls) :
            (calls[i].call = "llm.relevance" /\ (calls[i].raised \/ ~calls[i].parsed))
                => /\ state.relevance_score = 50
                   /\ state.is_relevant
                   /\ \E j \in 1..Len(executed) :
                         /\ executed[j] = "relevance_check"
                         /\ StageAfter(j) = "response_synthesis"

(* C9: a request of an accepted query reaches its terminal state only       *)
(* through the Groundedness Gate: every backend failure is absorbed by its  *)
(* stage and no exception ends the request.                                 *)
C9_OnlyRejectionEndsEarly ==
    (Terminal /\ result.is_valid)
        => /\ executed[Len(executed)] = "hallucination_check"
           /\ exc = None

(* C10: an exception that leaves the graph is caught by invoke: the state   *)
(* returned carries the failure text in error and the fixed generic message *)
(* as answer_text.                                                          *)
C10_InvokeConvertsFailures ==
    /\ pc = "raised" => exc # None
    /\ (Terminal /\ exc # None)
          => /\ result.error = exc
             /\ result.response = <<GENERIC_ERROR>>

C10_Witness ==
    /\ Terminal
    /\ exc = "APIConnectionError"
    /\ result.error = "APIConnectionError"
    /\ result.response = <<GENERIC_ERROR>>

----------------------------------------------------------------------------
(* Vocabulary of the claims about the terminal state *)

\* the values of answer_source
AnswerSources == {"rag", "llm", "search", "none"}

\* the fallback edge of the Relevance Gate was taken
FallbackFired ==
    \E i \in 1..Len(executed) :
        executed[i] = "relevance_check" /\ StageAfter(i) = "llm"

\* the Groundedness Gate ran and returned
GateReturned == InSeq("hallucination_check", executed) /\ exc = None

\* how many times the caveat stands in a text
CaveatCount(text) == Cardinality({i \in 1..Len(text) : text[i] = CAVEAT})

\* the request made the call and it raised
CallRaised(name) ==
    \E i \in 1..Len(calls) : calls[i].call = name /\ calls[i].raised

\* the tools that reported success = false in the request
RetrievalFailed == InSeq("rag", executed) /\ state.retrieved_documents = <<>>
KnowledgeFailed == InSeq("llm", executed) /\ CallRaised("llm.knowledge")
SearchFailed ==
    /\ InSeq("search", executed)
    /\ (state.search_results = <<>> \/ CallRaised("llm.search"))

(* C11: every state invoke returns (rejected query, completion on any       *)
(* branch, tool failure, internal fault) has a non-empty answer_text, an    *)
(* answer_source among retrieval, knowledge, search and none, and elapsed   *)
(* set; citations is a sequence in every state.                             *)
C11_TerminalStatePopulated ==
    Terminal =>
        /\ result.response # <<>>
        /\ result.source_type \in AnswerSources
        /\ result.processing_time \in Durations

(* C12: in the terminal state of a request that was routed, answer_source   *)
(* equals selected_tool when the fallback edge did not fire, and is         *)
(* knowledge when it fired.                                                 *)
C12_AnswerSourceMatchesTool ==
    (Terminal /\ InSeq("router", executed)) =>
        result.source_type =
            IF FallbackFired THEN "llm" ELSE result.selected_tool

(* C13: whenever the Groundedness Gate has returned on an answer_source     *)
(* other than retrieval (knowledge, search, none, or unset), it left        *)
(* is_grounded true and confidence 1.0, and the answer carries no caveat.   *)
C13_NonRetrievalSkipsGate ==
    (Active /\ GateReturned /\ state.source_type # "rag") =>
        /\ state.is_grounded
        /\ state.grounding_confidence = 100
        /\ CaveatCount(state.response) = 0

(* C14: a state invoke returns with answer_source knowledge or search has   *)
(* is_grounded true and groundedness confidence exactly 1.0, whether the    *)
(* tool was routed to directly or reached by the fallback edge; the same    *)
(* holds of the working state once the Groundedness Gate has returned.      *)
C14_KnowledgeSearchGrounded ==
    /\ (Terminal /\ result.source_type \in {"llm", "search"})
          => result.is_grounded /\ result.grounding_confidence = 100
    /\ (Active /\ GateReturned /\ state.source_type \in {"llm", "search"})
          => state.is_grounded /\ state.grounding_confidence = 100

\* a knowledge answer reached by the fallback edge from retrieval
C14_Witness ==
    /\ Terminal
    /\ result.source_type = "llm"
    /\ FallbackFired
    /\ InSeq("hallucination_check", executed)
    /\ result.is_grounded
    /\ result.grounding_confidence = 100

\* the step of the Groundedness Gate when it returns: the answer is left as
\* it was on a grounded verdict and gets the caveat on an ungrounded one
C15_GateStep ==
    (pc = "hallucination_check" /\ pc' = "END") =>
        state'.response =
            IF state'.is_grounded THEN state.response
            ELSE Append(state.response, CAVEAT)

\* no other step of the request adds or removes a caveat
C15_OtherSteps ==
    (WithinRequest /\ pc # "hallucination_check") =>
        CaveatCount(state'.response) = CaveatCount(state.response)

C15_AtMostOnce ==
    Active =>
        /\ CaveatCount(state.response) <= 1
        /\ GateReturned => (CaveatCount(state.response) = 1 <=> ~state.is_grounded)
        /\ Terminal => (CaveatCount(result.response) = 1 <=> ~result.is_grounded)

(* C15: the answer_text of a request carries the caveat at most once; the   *)
(* Groundedness Gate's step appends it exactly when the gate returned       *)
(* is_grounded false and leaves the answer_text as it entered when the gate *)
(* returned true; no other step changes the number of caveats; the state    *)
(* returned carries one caveat if and only if its is_grounded is false.     *)
C15_CaveatOnceIffUngrounded ==
    [][C15_GateStep /\ C15_OtherSteps]_vars /\ []C15_AtMostOnce

\* a retrieval answer the model rated below the threshold
C15_Witness ==
    /\ Terminal
    /\ result.source_type = "rag"
    /\ ~result.is_grounded
    /\ result.grounding_confidence = 69
    /\ result.response = <<"model text", CAVEAT>>

(* C16: when a tool of the request reported success = false (retrieval with *)
(* no passage or an index error, a failed knowledge completion, search with *)
(* no result or a failed follow-up completion), the returned state has      *)
(* needs_fallback true, no exception left the graph, and the failure is     *)
(* recorded in error.                                                       *)
C16_ToolFailureRecorded ==
    (Terminal /\ (RetrievalFailed \/ KnowledgeFailed \/ SearchFailed)) =>
        /\ result.needs_fallback
        /\ exc = None
        /\ result.error # None

(* C17: when the Knowledge tool failed (selected directly or reached by the *)
(* fallback edge) or the Search tool failed, the answer_text returned is    *)
(* the generic "could not find information" message.                        *)
C17_FailureGivesCouldNotFind ==
    (Terminal /\ (KnowledgeFailed \/ SearchFailed)) =>
        result.response = <<COULD_NOT_FIND>>

\* the calls the tools make: knowledge and search completions, the index
\* search and the web search
ToolCalls == {"llm.knowledge", "llm.search", "chroma.search", "serper.search"}

\* how many attempts of the call the request has made
AttemptsOf(name) ==
    Cardinality({i \in 1..Len(calls) : calls[i].call = name})

(* C18: a tool's backend call (completion, index search, web search) is     *)
(* recorded as failed only after the request has made all RetryAttempts     *)
(* attempts of it: no stage gives up on a call after fewer attempts.        *)
C18_FailureOnlyAfterRetries ==
    Active =>
        \A i \in 1..Len(calls) :
            (calls[i].call \in ToolCalls /\ calls[i].raised)
                => AttemptsOf(calls[i].call) = RetryAttempts

----------------------------------------------------------------------------
(* Claims about the Input Guard, checked under SpecGuard *)

\* one of the four rejection conditions holds of the query
ShouldReject(q) ==
    \/ QueryLen(q) > MAX_QUERY_LENGTH
    \/ IsBlank(q)
    \/ MatchesSQL(q)
    \/ MatchesPromptInjection(q)

\* the query matches a PII pattern and no rejection condition
PIIOnly(q) == MatchesPII(q) /\ ~ShouldReject(q)

\* the latest call of validate_query returned
Validated == pc = "idle" /\ result # NoState

(* C19, as stated: validate_query returns valid = false exactly when the    *)
(* query is longer than 1000 characters, blank, or matches a SQL or a       *)
(* prompt-injection pattern; a PII-only query is valid; and every query     *)
(* matching a SQL pattern is rejected with the SQL-pattern reason.          *)
C19_VerdictAsStated ==
    Validated =>
        LET q == result.query
            v == result.verdict
        IN /\ ~v.valid <=> ShouldReject(q)
           /\ PIIOnly(q) => v.valid
           /\ MatchesSQL(q) => (~v.valid /\ v.reason = REASON_SQL)

(* C19, amended: validate_query returns valid = false exactly when the      *)
(* query is longer than 1000 characters, blank, or matches a SQL or a       *)
(* prompt-injection pattern; a PII-only query is valid; a query of at most  *)
(* 1000 characters matching a SQL pattern is rejected with the SQL-pattern  *)
(* reason, and a longer one with the length reason, because the length      *)
(* check comes first.                                                       *)
C19_VerdictByFirstMatch ==
    Validated =>
        LET q == result.query
            v == result.verdict
        IN /\ ~v.valid <=> ShouldReject(q)
           /\ PIIOnly(q) => v.valid
           /\ (MatchesSQL(q) /\ QueryLen(q) <= MAX_QUERY_LENGTH)
                 => (~v.valid /\ v.reason = REASON_SQL)
           /\ (MatchesSQL(q) /\ QueryLen(q) > MAX_QUERY_LENGTH)
                 => (~v.valid /\ v.reason = REASON_LONG)

\* a statement terminator after 1001 letters: rejected for its length
C19_Witness ==
    /\ Validated
    /\ result.query = <<"x1001", ";">>
    /\ MatchesSQL(result.query)
    /\ result.verdict = [valid |-> FALSE, reason |-> REASON_LONG]

----------------------------------------------------------------------------
(* Claims about the classifier, the gates and the tools *)

\* the position of a node in the run history, 0 when it has not run
RECURSIVE IndexOf(_, _)
IndexOf(x, s) ==
    IF s = <<>> THEN 0
    ELSE IF s[Len(s)] = x THEN Len(s)
    ELSE IndexOf(x, SubSeq(s, 1, Len(s) - 1))

\* the request's record of the named call; the call was made
CallOf(name) == calls[CHOOSE i \in 1..Len(calls) : calls[i].call = name]
Called(name) == \E i \in 1..Len(calls) : calls[i].call = name

ClassifierRan == Active /\ InSeq("query_analysis", executed)

(* C21: when the classifier's model call raised, or its reply lacks the     *)
(* Category line or the Confidence line or has a confidence that is no      *)
(* number, the state after the classifier has intent document and           *)
(* confidence 0.5 and the next stage is the Router: no intent read from     *)
(* such a reply is kept.                                                    *)
C21_ClassifierFailsToDefault ==
    (ClassifierRan /\ (CallOf("llm.classify").raised \/ ~CallOf("llm.classify").parsed))
        => /\ state.query_intent = "document"
           /\ state.confidence = 50
           /\ StageAfter(IndexOf("query_analysis", executed)) = "router"

\* a reply that did not parse, the default stored, the Router next
C21_Witness ==
    /\ ClassifierRan
    /\ ~CallOf("llm.classify").raised
    /\ ~CallOf("llm.classify").parsed
    /\ state.query_intent = "document"
    /\ state.confidence = 50
    /\ pc = "router"

(* C22: after the Intent Classifier has run, whatever the model replied,    *)
(* intent is one of document, knowledge, search, unknown and                *)
(* intent_confidence lies in [0,1].                                         *)
C22_IntentAndConfidenceInRange ==
    ClassifierRan =>
        /\ state.query_intent \in {"document", "knowledge", "search", "unknown"}
        /\ state.confidence >= 0
        /\ state.confidence <= 100

\* the Relevance Gate ran and returned
RelevanceGateReturned ==
    /\ Active
    /\ InSeq("relevance_check", executed)
    /\ ~RaisedAt(IndexOf("relevance_check", executed))

(* C23: when the Relevance Gate ran on empty evidence it left score 0,      *)
(* is_relevant false and needs_fallback true, and the request made no       *)
(* relevance call to the language model.                                    *)
C23_EmptyEvidenceShortCircuits ==
    (Active /\ InSeq("relevance_check", executed) /\ state.retrieved_documents = <<>>)
        => /\ state.relevance_score = 0
           /\ ~state.is_relevant
           /\ state.needs_fallback
           /\ ~Called("llm.relevance")
           /\ ~RaisedAt(IndexOf("relevance_check", executed))

\* the index failed, the gate ran on nothing and sent the request to the
\* Knowledge tool
C23_Witness ==
    /\ pc = "llm"
    /\ executed[Len(executed)] = "relevance_check"
    /\ CallOf("chroma.search").raised
    /\ state.retrieved_documents = <<>>
    /\ state.relevance_score = 0
    /\ ~state.is_relevant
    /\ state.needs_fallback

\* a number clamped to [0,1], in hundredths, as the specification words it
ClampedToUnit(r) == IF r < 0 THEN 0 ELSE IF r > 100 THEN 100 ELSE r

(* C24: when the relevance model returned a number r on non-empty evidence, *)
(* the gate's score is r clamped to [0,1] and is_relevant is true exactly   *)
(* when the clamped score is at least the relevance threshold.              *)
C24_RelevanceScoreClamped ==
    (RelevanceGateReturned /\ Called("llm.relevance")
        /\ ~CallOf("llm.relevance").raised /\ CallOf("llm.relevance").parsed)
        => LET r == ParseFloat(CallOf("llm.relevance").reply)
           IN /\ state.retrieved_documents # <<>>
              /\ state.relevance_score = ClampedToUnit(r)
              /\ state.is_relevant <=> (ClampedToUnit(r) >= relevance_threshold)

\* a reply equal to the threshold counts as relevant
C24_Witness ==
    /\ RelevanceGateReturned
    /\ Called("llm.relevance")
    /\ CallOf("llm.relevance").reply = "0.6"
    /\ state.relevance_score = 60
    /\ state.is_relevant
    /\ StageAfter(IndexOf("relevance_check", executed)) = "response_synthesis"

\* len of the evidence text handed to the Groundedness Gate
EvidenceTextLen(s) ==
    JoinLen(SubSeq(s.retrieved_documents, 1,
                   Min(ContextDocs, Len(s.retrieved_documents))))

(* C25: for a retrieval-sourced answer with a non-empty evidence text, the  *)
(* Groundedness Gate, given a rating r that parses, leaves confidence = r   *)
(* clamped to [0,1] and is_grounded = (confidence >= hallucination          *)
(* threshold); given a rating that does not parse, it leaves is_grounded    *)
(* true and confidence 0.5.                                                 *)
C25_GroundingVerdict ==
    (Active /\ GateReturned /\ state.source_type = "rag" /\ EvidenceTextLen(state) > 0)
        => /\ Called("llm.grounding")
           /\ LET c == CallOf("llm.grounding")
              IN /\ (~c.raised /\ c.parsed) =>
                      /\ state.grounding_confidence = ClampedToUnit(ParseFloat(c.reply))
                      /\ state.is_grounded <=>
                           (state.grounding_confidence >= hallucination_threshold)
                 /\ ~c.parsed =>
                      /\ state.is_grounded
                      /\ state.grounding_confidence = 50

\* a rating equal to the threshold counts as grounded
C25_Witness ==
    /\ Terminal
    /\ result.source_type = "rag"
    /\ EvidenceTextLen(state) > 0
    /\ CallOf("llm.grounding").reply = "0.7"
    /\ result.is_grounded
    /\ result.grounding_confidence = 70
    /\ CaveatCount(result.response) = 0

(* C26: for a retrieval-sourced answer whose evidence text is empty, the    *)
(* Groundedness Gate returns is_grounded false and confidence 0.0 and       *)
(* makes no call to the language model.                                     *)
C26_NoEvidenceUngrounded ==
    (Active /\ InSeq("hallucination_check", executed)
        /\ state.source_type = "rag" /\ EvidenceTextLen(state) = 0)
        => /\ exc = None
           /\ ~state.is_grounded
           /\ state.grounding_confidence = 0
           /\ ~Called("llm.grounding")

\* one passage with an empty text was retrieved, judged relevant and
\* synthesized from
C26_Witness ==
    /\ Terminal
    /\ result.source_type = "rag"
    /\ Len(result.retrieved_documents) = 1
    /\ result.retrieved_documents[1].page_content = 0
    /\ ~result.is_grounded
    /\ result.grounding_confidence = 0
    /\ ~Called("llm.grounding")

\* the outcome of the request's knowledge completion, as llm_tool saw it
KnowledgeOutcome ==
    IF CallOf("llm.knowledge").raised
    THEN [raised |-> TRUE, error |-> CallOf("llm.knowledge").error]
    ELSE CHOOSE o \in AnswerReplies : TRUE

(* C27: on every invocation of the Knowledge tool, whether its model call   *)
(* succeeded or raised, the tool returns exactly one citation, tagged as    *)
(* model knowledge, and success is true exactly when the call did not       *)
(* raise.                                                                   *)
C27_KnowledgeToolOneCitation ==
    (Active /\ InSeq("llm", executed)) =>
        LET r == llm_tool(KnowledgeOutcome)
        IN /\ Len(r.sources) = 1
           /\ r.sources[1].type = "llm_knowledge"
           /\ r.success <=> ~CallOf("llm.knowledge").raised

\* the retrieval tool has just returned
RetrievalReturned ==
    /\ pc = "relevance_check"
    /\ executed # <<>>
    /\ executed[Len(executed)] = "rag"

(* C28: when the retrieval tool has returned, every score it returned is at *)
(* least the similarity threshold, there is exactly one citation per        *)
(* passage, a document citation of that passage, in the same order, and     *)
(* the tool reported failure (needs_fallback) exactly when no passage       *)
(* survived.                                                                *)
C28_RetrievalFiltered ==
    RetrievalReturned =>
        /\ Len(state.sources) = Len(state.retrieved_documents)
        /\ \A i \in 1..Len(state.sources) :
              /\ state.sources[i].score >= similarity_threshold
              /\ state.sources[i].type = "document"
              /\ state.sources[i].content =
                    Min(state.retrieved_documents[i].page_content, PreviewLen)
        /\ state.needs_fallback <=> (state.retrieved_documents = <<>>)

\* two passages survived, cited in the order they were returned
C28_Witness ==
    /\ RetrievalReturned
    /\ Len(state.retrieved_documents) = 2
    /\ state.retrieved_documents[1].page_content = 5
    /\ state.retrieved_documents[2].page_content = 0
    /\ state.sources[1].content = 5
    /\ state.sources[2].content = 0
    /\ ~state.needs_fallback

(* C29: after the Search tool's node has run, answer_source is search only  *)
(* if the web search returned at least one result and the follow-up         *)
(* completion succeeded, and then answer_text is set; if the web search     *)
(* returned nothing or the completion raised, needs_fallback is true and    *)
(* answer_source is not search.                                             *)
C29_SearchNeedsBothSteps ==
    (Active /\ InSeq("search", executed)) =>
        /\ state.source_type = "search" =>
              /\ state.search_results # <<>>
              /\ ~CallOf("serper.search").raised
              /\ Called("llm.search") /\ ~CallOf("llm.search").raised
              /\ state.response # <<>>
        /\ (state.search_results = <<>> \/ CallRaised("llm.search")) =>
              /\ state.needs_fallback
              /\ state.source_type # "search"

\* the web search found a result and the follow-up completion raised
C29_Witness ==
    /\ Active /\ InSeq("search", executed)
    /\ state.search_results # <<>>
    /\ CallRaised("llm.search")
    /\ state.needs_fallback
    /\ state.source_type = ""

----------------------------------------------------------------------------
(* Claims about the Response Synthesizer, checked under SpecSynthesis *)

(* C30: when the Response Synthesizer has run on an empty evidence list,    *)
(* the answer_text it left is the fixed could-not-find message, the         *)
(* answer_source is none, and no synthesis call was made to the language    *)
(* model.                                                                   *)
C30_NoEvidenceFixedMessage ==
    (InSeq("response_synthesis", executed) /\ state.retrieved_documents = <<>>)
        => /\ state.source_type = "none"
           /\ ~Called("llm.synthesis")
           /\ IsPrefix(<<COULD_NOT_FIND>>, state.response)
           /\ pc = "hallucination_check" => state.response = <<COULD_NOT_FIND>>

\* the node has just returned on an empty evidence list
C30_Witness ==
    /\ pc = "hallucination_check"
    /\ executed = <<"response_synthesis">>
    /\ state.retrieved_documents = <<>>
    /\ state.response = <<COULD_NOT_FIND>>
    /\ state.source_type = "none"
    /\ calls = <<>>

----------------------------------------------------------------------------
(* Claims about the tools run, the citations and the gates' flags *)

\* the node is one of the three Tool Executors
IsToolNode(n) == n \in {"rag", "llm", "search"}

\* the Tool Executors that ran in the request, in execution order
ToolsRun == SelectSeq(executed, IsToolNode)

(* C35: in the state invoke returns for an accepted query that completed,   *)
(* attempted_tools is the list of the Tool Executors that ran, in the order *)
(* they ran; after the fallback edge fired it is retrieval, knowledge.      *)
C35_AttemptedToolsListsEveryTool ==
    (Terminal /\ exc = None /\ result.is_valid) =>
        /\ result.attempted_tools = ToolsRun
        /\ FallbackFired => result.attempted_tools = <<"rag", "llm">>

\* every citation of the list has the given type
AllOfType(citations, type) ==
    \A i \in 1..Len(citations) : citations[i].type = type

(* C36: in every state invoke returns, the citations match the              *)
(* answer_source: all document citations for retrieval, exactly one         *)
(* model-knowledge citation for knowledge, all web citations for search,    *)
(* and no citation at all when there is no answer (answer_source unset or   *)
(* none).                                                                   *)
C36_CitationsMatchAnswerSource ==
    Terminal =>
        /\ result.source_type = "rag" => AllOfType(result.sources, "document")
        /\ result.source_type = "llm" =>
              /\ Len(result.sources) = 1
              /\ AllOfType(result.sources, "llm_knowledge")
        /\ result.source_type = "search" =>
              AllOfType(result.sources, "internet_search")
        /\ result.source_type \notin {"rag", "llm", "search"} =>
              result.sources = <<>>

\* the Groundedness Gate returned on a retrieval-sourced answer
GroundingGateReturnedOnRetrieval ==
    Active /\ GateReturned /\ state.source_type = "rag"

\* the gate's call to the model was made and its reply gave no number
\* (the call raised an error the scorer catches, or the text is no number)
Unparsed(name) == Called(name) /\ ~CallOf(name).parsed

(* C37, as stated: after the Relevance Gate has returned, is_relevant holds *)
(* exactly when relevance_score >= the relevance threshold; after the       *)
(* Groundedness Gate has returned on a retrieval-sourced answer,            *)
(* is_grounded holds exactly when the confidence >= the hallucination       *)
(* threshold; the parse-failure default included.                           *)
C37_FlagAgreesWithScore ==
    /\ RelevanceGateReturned =>
          (state.is_relevant <=> state.relevance_score >= relevance_threshold)
    /\ GroundingGateReturnedOnRetrieval =>
          (state.is_grounded <=>
              state.grounding_confidence >= hallucination_threshold)

(* C37, amended: the flag agrees with the score under the threshold         *)
(* whenever the gate did not fall back to its parse-failure default; when   *)
(* it did, the score is 0.5 and the flag is true, whatever the threshold.   *)
C37_FlagAgreesUnlessDefault ==
    /\ RelevanceGateReturned =>
          IF Unparsed("llm.relevance")
          THEN state.is_relevant /\ state.relevance_score = DefaultScore
          ELSE state.is_relevant <=> state.relevance_score >= relevance_threshold
    /\ GroundingGateReturnedOnRetrieval =>
          IF Unparsed("llm.grounding")
          THEN state.is_grounded /\ state.grounding_confidence = DefaultScore
          ELSE state.is_grounded <=>
                  state.grounding_confidence >= hallucination_threshold

\* both gates fell back to the default in one request
C37_Witness ==
    /\ GroundingGateReturnedOnRetrieval
    /\ RelevanceGateReturned
    /\ Unparsed("llm.relevance")
    /\ Unparsed("llm.grounding")
    /\ state.is_relevant /\ state.relevance_score = DefaultScore
    /\ state.is_grounded /\ state.grounding_confidence = DefaultScore

(* C38: a state invoke returns with answer_source retrieval comes from a    *)
(* request routed to retrieval, with non-empty evidence, is_relevant true,  *)
(* no fallback, and the Response Synthesizer run; the Synthesizer is never  *)
(* about to run, nor has run, on empty evidence; and no state invoke        *)
(* returns has answer_source none.                                          *)
C38_RetrievalAnswerProvenance ==
    /\ (Terminal /\ result.source_type = "rag") =>
          /\ result.selected_tool = "rag"
          /\ result.retrieved_documents # <<>>
          /\ result.is_relevant
          /\ ~FallbackFired
          /\ ~InSeq("llm", executed)
          /\ InSeq("response_synthesis", executed)
    /\ (pc = "response_synthesis" \/ InSeq("response_synthesis", executed)) =>
          state.retrieved_documents # <<>>
    /\ Terminal => result.source_type # "none"

\* a retrieval-sourced answer returned to the caller
C38_Witness ==
    /\ Terminal
    /\ result.source_type = "rag"
    /\ result.selected_tool = "rag"
    /\ result.retrieved_documents # <<>>
    /\ result.is_relevant
    /\ InSeq("response_synthesis", executed)

(* C39: the state invoke returns for a rejected query is the freshly        *)
(* created initial state of the request with valid = false, a non-empty     *)
(* rejection_reason and elapsed set: every other field, corpus_size         *)
(* included, is as it was created.                                          *)
C39_RejectionFrame ==
    (Terminal /\ exc = None /\ ~result.is_valid) =>
        /\ result.validation_reason # ""
        /\ result.validation_reason # None
        /\ result.processing_time \in Durations
        /\ result = [initial_state EXCEPT
                        !.is_valid = FALSE,
                        !.validation_reason = result.validation_reason,
                        !.processing_time = result.processing_time]
        /\ initial_state = NewState(result.query, result.doc_count)

\* a prompt-injection query rejected over a non-empty collection
C39_Witness ==
    /\ Terminal
    /\ exc = None
    /\ ~result.is_valid
    /\ result.validation_reason = REASON_PROMPT
    /\ result.doc_count > 0
    /\ result.response = <<>>

----------------------------------------------------------------------------
(* Claims about termination, checked under SpecFair and SpecHang *)

\* the fallback edges taken in the request
FallbackSteps ==
    {i \in 1..Len(executed) :
        executed[i] = "relevance_check" /\ StageAfter(i) = "llm"}

C34_StagesOnce ==
    Active =>
        /\ \A i, j \in 1..Len(executed) : i < j => executed[i] # executed[j]
        /\ Cardinality(FallbackSteps) <= 1
        /\ AttemptsOf("llm.knowledge") <= 1
        /\ \A i \in 1..Len(executed) :
              executed[i] \in {"llm", "search"} =>
                 /\ \A j \in (i + 1)..Len(executed) :
                       executed[j] = "hallucination_check"
                 /\ pc \in {"hallucination_check", "END", "raised", "returned"}

(* C34: with every backend call returning or raising, every request in      *)
(* flight eventually returns to its caller; no stage runs twice in a        *)
(* request, the fallback edge is taken at most once, the Knowledge tool is  *)
(* invoked at most once, and after the Knowledge or the Search tool only    *)
(* the Groundedness Gate runs.                                              *)
C34_EveryRequestTerminates ==
    /\ []C34_StagesOnce
    /\ WithinRequest ~> Terminal

\* a request that took the longest path of the graph and returned
C34_Witness ==
    /\ Terminal
    /\ FallbackFired
    /\ executed = <<"input_validation", "query_analysis", "router", "rag",
                    "relevance_check", "llm", "hallucination_check">>

(* C33: a request whose backend call never returns still reaches a terminal *)
(* state: something (a timeout, a cancellation) ends the call.              *)
C33_BlockedCallIsEnded == (pc = "blocked") ~> Terminal

----------------------------------------------------------------------------
(* Claims about two requests in flight, checked under SpecTwo *)

\* the step is the scheduler's switch, not a step of the running call
IsSwitch == parked' # parked

\* invoke() has just built the state of a new request
C31_FreshState ==
    (~IsSwitch /\ pc \in {"idle", "returned"} /\ pc' = "input_validation") =>
        /\ state' = NewState(state'.query, state'.doc_count)
        /\ state'.doc_count = collection_count
        /\ initial_state' = state'
        /\ executed' = <<>> /\ calls' = <<>>

\* a step of the running call leaves the other call's locals as they are; a
\* switch changes no field of either call, and nothing else
C31_NoInterference ==
    IsSwitch => /\ parked' = Context
                /\ Context' = parked
                /\ collection_count' = collection_count

\* what the backends answered to the call, as far as the request kept it:
\* the snapshot, the classifier's parsed reply, the passages and web results,
\* and the outcome and reply of every call
ResponsesOf(c) ==
    [ query |-> c.state.query,
      doc_count |-> c.state.doc_count,
      query_intent |-> c.state.query_intent,
      confidence |-> c.state.confidence,
      retrieved_documents |-> c.state.retrieved_documents,
      search_results |-> c.state.search_results,
      calls |-> c.calls ]

\* the state invoke() returned, apart from the list the graph library may or
\* may not share with the caller's copy on the except branch
Returned(c) ==
    IF c.exc = None THEN c.result
    ELSE [c.result EXCEPT !.attempted_tools = <<>>]

\* two calls that returned after the same query and the same responses
\* returned the same state after the same stages, however they interleaved
\* (one of them may have run from start to end with the other suspended)
C31_SameAsAlone ==
    (pc = "returned" /\ parked.pc = "returned"
        /\ ResponsesOf(Context) = ResponsesOf(parked))
    => /\ Returned(Context) = Returned(parked)
       /\ executed = parked.executed
       /\ exc = parked.exc

(* C31: with two invoke() calls interleaved on one AgentGraph, each call    *)
(* starts from a freshly built state, no step of one call reads or changes  *)
(* the state of the other, and the state a call returns is the one its own  *)
(* query and backend responses determine.                                   *)
C31_RequestsIndependent ==
    /\ [][C31_FreshState /\ C31_NoInterference]_vars
    /\ []C31_SameAsAlone

\* two requests for the same query in flight at once, at different stages:
\* one answered by the Knowledge tool, the other waiting at the Relevance Gate
C31_Witness ==
    /\ pc = "hallucination_check"
    /\ state.source_type = "llm"
    /\ parked.pc = "relevance_check"
    /\ parked.state.query = state.query
    /\ parked.state.retrieved_documents # <<>>

----------------------------------------------------------------------------
(* Claims about the corpus snapshot *)

\* the snapshot said the corpus had documents, and the collection was empty
\* when the retrieval tool searched it
StaleSnapshotOverEmptyIndex ==
    /\ Active
    /\ state.doc_count > 0
    /\ Called("chroma.search")
    /\ CallOf("chroma.search").reply = EMPTY_INDEX

\* no step of a request changes its corpus_size, and the Router's choice is
\* the one the snapshot gives, whatever the collection holds by then
C32_SnapshotOnly ==
    /\ (WithinRequest /\ pc' # "idle") => state'.doc_count = state.doc_count
    /\ (pc = "router" /\ pc' # "router") =>
          state'.selected_tool = SelectTool(state)

C32_StaleSnapshotFallsBack ==
    StaleSnapshotOverEmptyIndex =>
        /\ state.selected_tool = "rag"
        /\ state.retrieved_documents = <<>>
        /\ exc = None
        /\ pc # "response_synthesis"
        /\ ~InSeq("response_synthesis", executed)
        /\ Terminal =>
              /\ FallbackFired
              /\ InSeq("llm", executed)
              /\ result.response # <<>>
              /\ result.source_type \in AnswerSources
              /\ result.processing_time \in Durations

(* C32: the request's corpus_size is the snapshot invoke() took and no      *)
(* stage changes it; the Router selects by the snapshot alone; and a        *)
(* request whose snapshot was positive while the collection was empty at    *)
(* retrieval time finds no evidence, takes the fallback edge into the       *)
(* Knowledge tool and returns a well-formed state (answer_text non-empty,   *)
(* answer_source among retrieval, knowledge, search, none, elapsed set).    *)
C32_StaleSnapshotOnlyAffectsRouting ==
    /\ [][C32_SnapshotOnly]_vars
    /\ []C32_StaleSnapshotFallsBack
====
